---- MODULE Spec2Model ----
(***************************************************************************)
(* Model of github.com/jschaf/dns: the questionCache (question_cache.go),  *)
(* a map from Question to Answer guarded by a RWMutex with lazy TTL        *)
(* expiration and hit/miss counters, and the cacheConn read-through        *)
(* net.Conn (cache_conn.go) that consults and populates it.                *)
(*                                                                         *)
(* Time is a discrete clock `now`; a time.Duration is a number of clock    *)
(* ticks and time.Second is `Second` ticks.                                *)
(***************************************************************************)
EXTENDS Integers, Sequences, FiniteSets, TLC

\* ------------------------------------------------------------------ bounds
NumProcs == 2      \* goroutines calling the questionCache directly
MaxTime  == 2      \* the clock runs 0..MaxTime
MaxTTL   == 1      \* largest TTL (in ticks) of an Answer passed to Set
MaxAge   == 1      \* an Answer passed to Set was fetched at most this many ticks ago
MaxCalls == 4      \* Get/Set calls begun in one behaviour
NumConns == 2      \* cacheConn instances
MaxConnOps == 5    \* Write/Read/Close calls on all cacheConns together
MaxDials == 2      \* connections the dial factory hands one cacheConn
Second   == 2      \* clock ticks in one time.Second
Lag      == 1      \* ticks the clock may advance inside one Close (under a second)
SmallBuf == 2      \* len(b) of a Read into a short buffer
BigBuf   == 5      \* len(b) of a Read into a buffer that holds a whole message
TTLRange == 16     \* number of values of the (32-bit) TTL field, scaled down
MaxIPs   == 2      \* longest address list of an Answer handed to buildAnswers

Procs == 1..NumProcs
Conns == 1..NumConns

\* ------------------------------------------------------------- data model
\* dnsmessage.Type values used by the program.
TypeA    == "A"
TypeAAAA == "AAAA"
TypeMX   == "MX"

\* Question{FQDN, Type}
Question(fqdn, type) == [FQDN |-> fqdn, Type |-> type]

Q1 == Question("example.com.", TypeA)
Q2 == Question("example.com.", TypeAAAA)
Questions == {Q1, Q2}

\* Answer{FetchTime, TTL, IPs}
Answer(fetchTime, ttl, ips) == [FetchTime |-> fetchTime, TTL |-> ttl, IPs |-> ips]

\* Answer{}: the zero value returned with found=false.
ZeroAnswer == Answer(0, 0, <<>>)

\* netip.Addr: the address family, the address bytes and the IPv6 zone.
Addr(fam, addr, zone) == [fam |-> fam, addr |-> addr, zone |-> zone]
IP4a == Addr(4, "1.2.3.4", "")
IP4b == Addr(4, "5.6.7.8", "")
IP6a == Addr(6, "2001:db8::1", "")
IP6z == Addr(6, "fe80::1", "eth0")

Is4(ip) == ip.fam = 4
Is6(ip) == ip.fam = 6
As4(ip) == ip.addr
As16(ip) == ip.addr
AddrFrom4(b) == Addr(4, b, "")
AddrFrom16(b) == Addr(6, b, "")

\* The answers a caller passes to Set at clock reading t: fetched at or up to
\* MaxAge ticks before t, so that live answers, answers that expire at t and
\* already-expired answers are all offered.
SetAnswers(t) ==
  {Answer(f, ttl, <<IP4a>>) : f \in {x \in 0..t : t - x <= MaxAge}, ttl \in 0..MaxTTL}

\* ------------------------------------------------------------------ state
VARIABLES
  now,       \* time.Now()
  m,         \* questionCache.m: a function whose DOMAIN is the set of stored keys
  hits,      \* questionCache.hits
  misses,    \* questionCache.misses
  pc,        \* position of each goroutine inside Get / Set
  argQ,      \* the q argument of the call in progress
  argA,      \* Set: the a argument; Get: the local a read from the map
  ret,       \* what each goroutine's last Get returned
  calls,     \* number of calls begun (bounds the behaviour)
  setCalls,  \* history: per question, number of Set calls begun
  setRets,   \* history: per question, number of Set calls returned
  everSet,   \* history: per question, the answers ever passed to Set
  deadSet,   \* history: per question, every Set so far passed an answer whose
             \*          FetchTime + TTL was in the past at the time of the call
  lastSet,   \* history: per question, the answer of the latest Set call begun
  soleSet,   \* history: per question, the latest Set call overlapped no other Set
  earlyGet,  \* history: per question, some Get began before any Set had returned
  gRet,      \* history: per question, number of Get calls returned
  gFound,    \* history: per question, number of Get calls returned found=true
  evicted,   \* history: per question, a Get removed its entry and no Set of an
             \*          answer that was live when passed has stored since
  liveSets,  \* history: per question, Sets that stored an answer live when passed
  realConn,  \* cacheConn.realConn: 0 is nil, otherwise an index into reals
  cachedResp,\* cacheConn.cachedResp: a bytes.Reader (set = not nil)
  realResp,  \* cacheConn.realResp
  reals,     \* per cacheConn, the connections its dial factory returned, in order
  dials,     \* history: per cacheConn, invocations of the dial factory
  out,       \* history: per cacheConn, what its last operation returned
  ops,       \* history: operations performed on all cacheConns together
  last,      \* history: the cacheConn and the operation of the latest step
  life,      \* history: per cacheConn, how often Write was called (2 = more than
             \*          once), whether Close was called, whether a dial, a real
             \*          Write or a real Read failed, whether realConn.Close failed
  env        \* the surroundings: queries written, what servers answer, faults

storeVars == <<m, hits, misses>>
procVars  == <<pc, argQ, argA, ret>>
histVars  == <<calls, setCalls, setRets, everSet, deadSet, lastSet, soleSet,
               earlyGet, gRet, gFound, evicted, liveSets>>
connVars  == <<realConn, cachedResp, realResp, reals, dials, out, ops, last, life, env>>
vars == <<now, storeVars, procVars, histVars, connVars>>

\* ---------------------------------------------------------- pure functions
\* The clock reading at which an answer stops being valid.
ExpireTime(a) == a.FetchTime + a.TTL

\* Variant of IsExpired with the comparison turned around (the expiry time is
\* after the current time).
IsExpiredAfter(a, t) == ExpireTime(a) > t

\* Answer.IsExpired: a.FetchTime.Add(a.TTL).Before(time.Now())
IsExpired(a, t) == ExpireTime(a) < t

EmptyMap == [k \in {} |-> ZeroAnswer]

\* c.m[q] = a
MapStore(mp, q, a) == [k \in (DOMAIN mp) \cup {q} |-> IF k = q THEN a ELSE mp[k]]

\* delete(c.m, q)
MapDelete(mp, q) == [k \in (DOMAIN mp) \ {q} |-> mp[k]]

\* Variant of the map lookup that matches a key by its FQDN alone.
MapLookupByName(mp, q) ==
  IF \E k \in DOMAIN mp : k.FQDN = q.FQDN
    THEN [a |-> mp[CHOOSE k \in DOMAIN mp : k.FQDN = q.FQDN], ok |-> TRUE]
    ELSE [a |-> ZeroAnswer, ok |-> FALSE]

\* a, ok := c.m[q]
MapLookup(mp, q) ==
  IF q \in DOMAIN mp THEN [a |-> mp[q], ok |-> TRUE]
  ELSE [a |-> ZeroAnswer, ok |-> FALSE]

\* ------------------------------------------------- dnsmessage (wire codec)
ClassINET == "IN"
HostName  == "example.com."

\* dnsmessage.Question
DNSQuestion(name, type) == [Name |-> name, Type |-> type, Class |-> ClassINET]

\* dnsmessage.Resource: a header and a body whose kind follows the header type.
ResourceHeader(name, type, class, ttl) ==
  [Name |-> name, Type |-> type, Class |-> class, TTL |-> ttl]
AResource(a) == [kind |-> TypeA, A |-> a]
AAAAResource(a) == [kind |-> TypeAAAA, AAAA |-> a]
MXResource == [kind |-> TypeMX]
Resource(header, body) == [Header |-> header, Body |-> body]

\* dnsmessage.Message
Message(id, response, questions, answers) ==
  [ID |-> id, Response |-> response, Questions |-> questions, Answers |-> answers]

\* The packed form of a message is a sequence of units: one header carrying the
\* section counts, then one unit per question and one per answer record.  A
\* Read may deliver any prefix of it.
Pack(msg) ==
  <<[k |-> "H", id |-> msg.ID, resp |-> msg.Response,
     nq |-> Len(msg.Questions), na |-> Len(msg.Answers)]>>
  \o [i \in 1..Len(msg.Questions) |-> [k |-> "Q", q |-> msg.Questions[i]]]
  \o [i \in 1..Len(msg.Answers) |-> [k |-> "R", r |-> msg.Answers[i]]]

\* Bytes that are no DNS message.
Garbage == <<[k |-> "X"]>>

\* Message.Unpack: fails on a missing header and on truncated sections.
Unpack(b) ==
  IF /\ Len(b) >= 1
     /\ b[1].k = "H"
     /\ Len(b) >= 1 + b[1].nq + b[1].na
     /\ \A i \in 2..(1 + b[1].nq) : b[i].k = "Q"
     /\ \A i \in (2 + b[1].nq)..(1 + b[1].nq + b[1].na) : b[i].k = "R"
  THEN [ok |-> TRUE,
        msg |-> Message(b[1].id, b[1].resp,
                        [i \in 1..b[1].nq |-> b[1 + i].q],
                        [i \in 1..b[1].na |-> b[1 + b[1].nq + i].r])]
  ELSE [ok |-> FALSE]

\* The queries a resolver writes: one A question, one AAAA question, one
\* question of an unsupported type, two questions, and malformed bytes.
Query(questions) == Message(1, FALSE, questions, <<>>)
QueryA    == Pack(Query(<<DNSQuestion(HostName, TypeA)>>))
QueryAAAA == Pack(Query(<<DNSQuestion(HostName, TypeAAAA)>>))
QueryMX   == Pack(Query(<<DNSQuestion(HostName, TypeMX)>>))
QueryTwo  == Pack(Query(<<DNSQuestion(HostName, TypeA), DNSQuestion(HostName, TypeAAAA)>>))
Queries   == {QueryA, QueryAAAA, QueryMX, QueryTwo, Garbage}

\* Answer records a server may send.
RecA(ip, ttl)    == Resource(ResourceHeader(HostName, TypeA, ClassINET, ttl), AResource(As4(ip)))
RecAAAA(ip, ttl) == Resource(ResourceHeader(HostName, TypeAAAA, ClassINET, ttl), AAAAResource(As16(ip)))
RecMX(ttl)       == Resource(ResourceHeader(HostName, TypeMX, ClassINET, ttl), MXResource)

OneA      == <<RecA(IP4a, 1)>>                    \* one A record
TwoA      == <<RecA(IP4a, 1), RecA(IP4b, 0)>>     \* two A records, different TTLs
ZeroTTL   == <<RecA(IP4a, 0)>>                    \* TTL zero
OneAAAA   == <<RecAAAA(IP6a, 1)>>                 \* one AAAA record
Mixed     == <<RecA(IP4a, 1), RecAAAA(IP6a, 1)>>  \* both families
OneMX     == <<RecMX(1)>>                         \* a record that carries no address
NoAnswers == <<>>

\* The surroundings of the cacheConns in one behaviour: the queries their
\* callers write, the answer sections servers send, whether servers also send
\* garbage, and whether the real transport fails.
Env(queries, sections, garbage, faults) ==
  [queries |-> queries, sections |-> sections, garbage |-> garbage, faults |-> faults]

\* No cacheConn at work: the questionCache is called directly.
NoEnv == Env({}, {}, FALSE, FALSE)

\* Resolvers asking for one A record or with two questions, servers answering
\* with one or two A records or a record of TTL zero, a working transport.
PlainEnv == Env({QueryA, QueryTwo}, {OneA, TwoA, ZeroTTL}, FALSE, FALSE)

\* Resolvers asking for an A or an AAAA record, servers answering either with
\* an A record or with an AAAA record, a working transport.
TypesEnv == Env({QueryA, QueryAAAA}, {OneA, OneAAAA}, FALSE, FALSE)

\* Resolvers whose queries the cacheConn does not support (a type other than
\* A and AAAA, two questions), servers that answer with an A record and need
\* not keep to the protocol, a working transport.
BypassEnv == Env({QueryMX, QueryTwo}, {OneA}, TRUE, FALSE)

\* Resolvers asking for an A record, servers that answer with an A record or
\* with a record that carries no address and need not keep to the protocol, a
\* transport whose dial, Write, Read and Close may fail.
FaultEnv == Env({QueryA}, {OneA, OneMX}, TRUE, TRUE)

\* Resolvers asking for an A record or for a record of an unsupported type,
\* servers answering with an A record, a working transport.
OtherTypeEnv == Env({QueryA, QueryMX}, {OneA}, FALSE, FALSE)

\* What the server at the other end of a real connection may answer to the
\* bytes written to it: a response echoing the questions, or, from a server
\* that does not keep to the protocol (garbage), bytes that are no message or
\* a response about the first of several questions only.
Responses(b, e) ==
  (IF Unpack(b).ok
     THEN {Pack(Message(Unpack(b).msg.ID, TRUE, Unpack(b).msg.Questions, as)) :
             as \in e.sections}
     ELSE {})
  \cup (IF e.garbage \/ ~Unpack(b).ok THEN {Garbage} ELSE {})
  \cup (IF e.garbage /\ Unpack(b).ok /\ Len(Unpack(b).msg.Questions) > 1
          THEN {Pack(Message(Unpack(b).msg.ID, TRUE,
                             SubSeq(Unpack(b).msg.Questions, 1, 1), as)) :
                  as \in e.sections}
          ELSE {})

\* ------------------------------------------------------ cacheConn helpers
\* bytes.Reader over data, read up to pos; set = FALSE is the nil pointer.
NilReader == [set |-> FALSE, data |-> <<>>, pos |-> 0]
NewReader(data) == [set |-> TRUE, data |-> data, pos |-> 0]

Min(a, b) == IF a <= b THEN a ELSE b

\* newQuestion
newQuestion(q) == Question(q.Name, q.Type)

\* One iteration of the loop of newAnswer: the address of record r.
RecordAddr(r) ==
  IF r.Header.Type = TypeA
    THEN IF r.Body.kind = TypeA
           THEN [ok |-> TRUE, ip |-> AddrFrom4(r.Body.A)]
           ELSE [ok |-> FALSE]
  ELSE IF r.Header.Type = TypeAAAA
    THEN IF r.Body.kind = TypeAAAA
           THEN [ok |-> TRUE, ip |-> AddrFrom16(r.Body.AAAA)]
           ELSE [ok |-> FALSE]
  ELSE [ok |-> FALSE]

\* Variant of the conversion that leaves out the unit: a count of seconds taken
\* as a count of clock ticks.
SecondsAsTicks(ttl) == ttl

\* time.Duration(ttl) * time.Second
SecondsToDuration(ttl) == ttl * Second

\* Variant of newAnswer that takes the TTL of the last record.
newAnswerLastTTL(msg, t) ==
  IF Len(msg.Answers) = 0 THEN [ok |-> FALSE]
  ELSE IF \E i \in 1..Len(msg.Answers) : ~RecordAddr(msg.Answers[i]).ok
    THEN [ok |-> FALSE]
  ELSE [ok |-> TRUE,
        a |-> Answer(t, SecondsToDuration(msg.Answers[Len(msg.Answers)].Header.TTL),
                     [i \in 1..Len(msg.Answers) |-> RecordAddr(msg.Answers[i]).ip])]

\* newAnswer(m) at clock reading t.
newAnswer(msg, t) ==
  IF Len(msg.Answers) = 0 THEN [ok |-> FALSE]
  ELSE IF \E i \in 1..Len(msg.Answers) : ~RecordAddr(msg.Answers[i]).ok
    THEN [ok |-> FALSE]
  ELSE [ok |-> TRUE,
        a |-> Answer(t, SecondsToDuration(msg.Answers[1].Header.TTL),
                     [i \in 1..Len(msg.Answers) |-> RecordAddr(msg.Answers[i]).ip])]

\* Variant of the conversion that rounds up to whole seconds.
DurationToSecondsUp(d) == ((d + Second - 1) \div Second) % TTLRange

\* uint32(answer.TTL / time.Second): the division truncates, the conversion
\* wraps at the width of the TTL field.
DurationToSeconds(d) == (d \div Second) % TTLRange

\* Variant of BuildRecord that does not compare the family of the address
\* with the type of the question.
BuildRecordUnchecked(q, answer, ip) ==
  IF q.Type = TypeA
    THEN [ok |-> TRUE,
          r |-> Resource(ResourceHeader(q.Name, q.Type, q.Class, DurationToSeconds(answer.TTL)),
                         AResource(As4(ip)))]
  ELSE IF q.Type = TypeAAAA
    THEN [ok |-> TRUE,
          r |-> Resource(ResourceHeader(q.Name, q.Type, q.Class, DurationToSeconds(answer.TTL)),
                         AAAAResource(As16(ip)))]
  ELSE [ok |-> FALSE]

\* Variant of BuildRecord that supports type A alone.
BuildRecordAOnly(q, answer, ip) ==
  IF q.Type = TypeA /\ Is4(ip)
    THEN [ok |-> TRUE,
          r |-> Resource(ResourceHeader(q.Name, q.Type, q.Class, DurationToSeconds(answer.TTL)),
                         AResource(As4(ip)))]
    ELSE [ok |-> FALSE]

\* Variant of BuildRecord that builds a record for a question of any type.
BuildRecordAnyType(q, answer, ip) ==
  IF q.Type = TypeA /\ ~Is4(ip) THEN [ok |-> FALSE]
  ELSE IF q.Type = TypeAAAA /\ ~Is6(ip) THEN [ok |-> FALSE]
  ELSE IF Is4(ip)
    THEN [ok |-> TRUE,
          r |-> Resource(ResourceHeader(q.Name, q.Type, q.Class, DurationToSeconds(answer.TTL)),
                         AResource(As4(ip)))]
  ELSE [ok |-> TRUE,
        r |-> Resource(ResourceHeader(q.Name, q.Type, q.Class, DurationToSeconds(answer.TTL)),
                       AAAAResource(As16(ip)))]

\* One iteration of the loop of buildAnswers: the record for address ip.
BuildRecord(q, answer, ip) ==
  IF q.Type = TypeA /\ ~Is4(ip) THEN [ok |-> FALSE]
  ELSE IF q.Type = TypeAAAA /\ ~Is6(ip) THEN [ok |-> FALSE]
  ELSE IF q.Type = TypeA
    THEN [ok |-> TRUE,
          r |-> Resource(ResourceHeader(q.Name, q.Type, q.Class, DurationToSeconds(answer.TTL)),
                         AResource(As4(ip)))]
  ELSE IF q.Type = TypeAAAA
    THEN [ok |-> TRUE,
          r |-> Resource(ResourceHeader(q.Name, q.Type, q.Class, DurationToSeconds(answer.TTL)),
                         AAAAResource(As16(ip)))]
  ELSE [ok |-> FALSE]

\* buildAnswers(q, answer)
buildAnswers(q, answer) ==
  IF \E i \in 1..Len(answer.IPs) : ~BuildRecord(q, answer, answer.IPs[i]).ok
    THEN [ok |-> FALSE]
    ELSE [ok |-> TRUE,
          rs |-> [i \in 1..Len(answer.IPs) |-> BuildRecord(q, answer, answer.IPs[i]).r]]

\* questionCache.Get(q) run to completion at clock reading t: what it returns
\* and what it leaves in the map and the counters.
GetAtomic(mp, h, ms, q, t) ==
  LET r == MapLookup(mp, q) IN
    IF ~r.ok
      THEN [a |-> ZeroAnswer, found |-> FALSE, m |-> mp, hits |-> h, misses |-> ms + 1]
    ELSE IF IsExpired(r.a, t)
      THEN [a |-> ZeroAnswer, found |-> FALSE, m |-> MapDelete(mp, q), hits |-> h,
            misses |-> ms + 1]
    ELSE [a |-> r.a, found |-> TRUE, m |-> mp, hits |-> h + 1, misses |-> ms]

\* History records kept in ret. A call in progress remembers the clock reading
\* at which it began (t0), whether a Set of its question had returned by then
\* (after), and whether the entry of its question was evicted then (ev, with
\* the count ls of live Sets).  A returned Get adds its result (a, found), the
\* entry it read from the map (seen, obs), the clock reading at which it
\* returned (t) and whether the question stayed evicted throughout (quiet).
NoRet == [kind |-> "none"]
CallRec(q, t0, after, ev, ls) ==
  [kind |-> "call", q |-> q, t0 |-> t0, after |-> after, ev |-> ev, ls |-> ls]
GetRet(c, a, found, seen, obs, t, ls) ==
  [kind |-> "get", q |-> c.q, t0 |-> c.t0, after |-> c.after,
   a |-> a, found |-> found, seen |-> seen, obs |-> obs, t |-> t,
   quiet |-> c.ev /\ c.ls = ls]

\* What an operation returned: a byte count and an error (a set of causes,
\* empty for nil; errors.Join is the union).
NoOut == [n |-> 0, err |-> {}]
Out(n, err) == [n |-> n, err |-> err]

\* The history of one cacheConn (life).
NewLife == [writes |-> 0, closed |-> FALSE, failed |-> FALSE, closeErr |-> FALSE]

\* ------------------------------------------------------------------- Init
\* newQuestionCache(), goroutines that have called nothing yet, and cacheConns
\* as Cache.dial constructs them.
InitOthers ==
  /\ now = 0
  /\ m = EmptyMap
  /\ hits = 0
  /\ misses = 0
  /\ pc = [p \in Procs |-> "idle"]
  /\ ret = [p \in Procs |-> NoRet]
  /\ calls = 0
  /\ setCalls = [q \in Questions |-> 0]
  /\ setRets = [q \in Questions |-> 0]
  /\ everSet = [q \in Questions |-> {}]
  /\ deadSet = [q \in Questions |-> TRUE]
  /\ lastSet = [q \in Questions |-> ZeroAnswer]
  /\ soleSet = [q \in Questions |-> TRUE]
  /\ earlyGet = [q \in Questions |-> FALSE]
  /\ gRet = [q \in Questions |-> 0]
  /\ gFound = [q \in Questions |-> 0]
  /\ evicted = [q \in Questions |-> FALSE]
  /\ liveSets = [q \in Questions |-> 0]
  /\ realConn = [c \in Conns |-> 0]
  /\ cachedResp = [c \in Conns |-> NilReader]
  /\ realResp = [c \in Conns |-> <<>>]
  /\ reals = [c \in Conns |-> <<>>]
  /\ dials = [c \in Conns |-> 0]
  /\ out = [c \in Conns |-> NoOut]
  /\ ops = 0
  /\ last = [c |-> 0, op |-> "new", b |-> <<>>]
  /\ life = [c \in Conns |-> NewLife]

InitState ==
  /\ InitOthers
  /\ argQ = [p \in Procs |-> Q1]
  /\ argA = [p \in Procs |-> ZeroAnswer]

Init == InitState /\ env = NoEnv

\* ------------------------------------------------------------------ clock
Tick ==
  /\ now < MaxTime
  /\ now' = now + 1
  /\ UNCHANGED <<storeVars, procVars, histVars>>
  /\ UNCHANGED connVars

\* ------------------------------------------------------ questionCache.Get
\* A goroutine calls Get(q).
GetCall(p, q) ==
  /\ pc[p] = "idle"
  /\ calls < MaxCalls
  /\ pc' = [pc EXCEPT ![p] = "get_rlock"]
  /\ argQ' = [argQ EXCEPT ![p] = q]
  /\ argA' = [argA EXCEPT ![p] = ZeroAnswer]
  /\ ret' = [ret EXCEPT ![p] = CallRec(q, now, setRets[q] > 0, evicted[q], liveSets[q])]
  /\ calls' = calls + 1
  /\ earlyGet' = [earlyGet EXCEPT ![q] = @ \/ setRets[q] = 0]
  /\ UNCHANGED <<now, storeVars, setCalls, setRets, everSet, deadSet, lastSet,
                 soleSet, gRet, gFound, evicted, liveSets>>
  /\ UNCHANGED connVars

\* c.mu.RLock(); a, ok := c.m[q]; c.mu.RUnlock()
GetRLock(p) ==
  /\ pc[p] = "get_rlock"
  /\ LET r == MapLookup(m, argQ[p]) IN
       /\ argA' = [argA EXCEPT ![p] = r.a]
       /\ pc' = [pc EXCEPT ![p] = IF r.ok THEN "get_check" ELSE "get_absent"]
  /\ UNCHANGED <<now, storeVars, argQ, ret, histVars>>
  /\ UNCHANGED connVars

\* if !ok { c.misses.Add(1); return Answer{}, false }
GetAbsent(p) ==
  /\ pc[p] = "get_absent"
  /\ misses' = misses + 1
  /\ pc' = [pc EXCEPT ![p] = "idle"]
  /\ ret' = [ret EXCEPT ![p] = GetRet(ret[p], ZeroAnswer, FALSE, FALSE, ZeroAnswer, now, liveSets[argQ[p]])]
  /\ argA' = [argA EXCEPT ![p] = ZeroAnswer]
  /\ gRet' = [gRet EXCEPT ![argQ[p]] = @ + 1]
  /\ UNCHANGED <<now, m, hits, argQ, calls, setCalls, setRets, everSet, deadSet,
                 lastSet, soleSet, earlyGet, gFound, evicted, liveSets>>
  /\ UNCHANGED connVars

\* Variant of GetCheck that counts the found entry as a miss.
GetCheckMiss(p) ==
  /\ pc[p] = "get_check"
  /\ IF IsExpired(argA[p], now)
       THEN /\ pc' = [pc EXCEPT ![p] = "get_lock"]
            /\ UNCHANGED <<misses, ret, argA, gRet, gFound>>
       ELSE /\ misses' = misses + 1
            /\ pc' = [pc EXCEPT ![p] = "idle"]
            /\ ret' = [ret EXCEPT ![p] = GetRet(ret[p], argA[p], TRUE, TRUE, argA[p], now, liveSets[argQ[p]])]
            /\ argA' = [argA EXCEPT ![p] = ZeroAnswer]
            /\ gRet' = [gRet EXCEPT ![argQ[p]] = @ + 1]
            /\ gFound' = [gFound EXCEPT ![argQ[p]] = @ + 1]
  /\ UNCHANGED <<now, m, hits, argQ, calls, setCalls, setRets, everSet,
                 deadSet, lastSet, soleSet, earlyGet, evicted, liveSets>>
  /\ UNCHANGED connVars

\* Variant of GetCheck that returns the entry it read without testing expiry.
GetCheckNoExpiry(p) ==
  /\ pc[p] = "get_check"
  /\ hits' = hits + 1
  /\ pc' = [pc EXCEPT ![p] = "idle"]
  /\ ret' = [ret EXCEPT ![p] = GetRet(ret[p], argA[p], TRUE, TRUE, argA[p], now, liveSets[argQ[p]])]
  /\ argA' = [argA EXCEPT ![p] = ZeroAnswer]
  /\ gRet' = [gRet EXCEPT ![argQ[p]] = @ + 1]
  /\ gFound' = [gFound EXCEPT ![argQ[p]] = @ + 1]
  /\ UNCHANGED <<now, m, misses, argQ, calls, setCalls, setRets, everSet,
                 deadSet, lastSet, soleSet, earlyGet, evicted, liveSets>>
  /\ UNCHANGED connVars

\* if a.IsExpired() { ... } else { c.hits.Add(1); return a, true }
GetCheck(p) ==
  /\ pc[p] = "get_check"
  /\ IF IsExpired(argA[p], now)
       THEN /\ pc' = [pc EXCEPT ![p] = "get_lock"]
            /\ UNCHANGED <<hits, ret, argA, gRet, gFound>>
       ELSE /\ hits' = hits + 1
            /\ pc' = [pc EXCEPT ![p] = "idle"]
            /\ ret' = [ret EXCEPT ![p] = GetRet(ret[p], argA[p], TRUE, TRUE, argA[p], now, liveSets[argQ[p]])]
            /\ argA' = [argA EXCEPT ![p] = ZeroAnswer]
            /\ gRet' = [gRet EXCEPT ![argQ[p]] = @ + 1]
            /\ gFound' = [gFound EXCEPT ![argQ[p]] = @ + 1]
  /\ UNCHANGED <<now, m, misses, argQ, calls, setCalls, setRets, everSet,
                 deadSet, lastSet, soleSet, earlyGet, evicted, liveSets>>
  /\ UNCHANGED connVars

\* c.mu.Lock(); delete(c.m, q); c.mu.Unlock()
GetLock(p) ==
  /\ pc[p] = "get_lock"
  /\ m' = MapDelete(m, argQ[p])
  /\ pc' = [pc EXCEPT ![p] = "get_evicted"]
  /\ evicted' = [evicted EXCEPT ![argQ[p]] = TRUE]
  /\ UNCHANGED <<now, hits, misses, argQ, argA, ret, calls, setCalls, setRets,
                 everSet, deadSet, lastSet, soleSet, earlyGet, gRet, gFound, liveSets>>
  /\ UNCHANGED connVars

\* Variant of GetEvicted that returns without counting the miss.
GetEvictedUncounted(p) ==
  /\ pc[p] = "get_evicted"
  /\ pc' = [pc EXCEPT ![p] = "idle"]
  /\ ret' = [ret EXCEPT ![p] = GetRet(ret[p], ZeroAnswer, FALSE, TRUE, argA[p], now, liveSets[argQ[p]])]
  /\ argA' = [argA EXCEPT ![p] = ZeroAnswer]
  /\ gRet' = [gRet EXCEPT ![argQ[p]] = @ + 1]
  /\ UNCHANGED <<now, m, hits, misses, argQ, calls, setCalls, setRets, everSet,
                 deadSet, lastSet, soleSet, earlyGet, gFound, evicted, liveSets>>
  /\ UNCHANGED connVars

\* c.misses.Add(1); return Answer{}, false
GetEvicted(p) ==
  /\ pc[p] = "get_evicted"
  /\ misses' = misses + 1
  /\ pc' = [pc EXCEPT ![p] = "idle"]
  /\ ret' = [ret EXCEPT ![p] = GetRet(ret[p], ZeroAnswer, FALSE, TRUE, argA[p], now, liveSets[argQ[p]])]
  /\ argA' = [argA EXCEPT ![p] = ZeroAnswer]
  /\ gRet' = [gRet EXCEPT ![argQ[p]] = @ + 1]
  /\ UNCHANGED <<now, m, hits, argQ, calls, setCalls, setRets, everSet, deadSet,
                 lastSet, soleSet, earlyGet, gFound, evicted, liveSets>>
  /\ UNCHANGED connVars

\* ------------------------------------------------------ questionCache.Set
SetInFlight(q) == \E o \in Procs : pc[o] = "set_lock" /\ argQ[o] = q

\* A goroutine calls Set(q, a).
SetCall(p, q, a) ==
  /\ pc[p] = "idle"
  /\ calls < MaxCalls
  /\ pc' = [pc EXCEPT ![p] = "set_lock"]
  /\ argQ' = [argQ EXCEPT ![p] = q]
  /\ argA' = [argA EXCEPT ![p] = a]
  /\ ret' = [ret EXCEPT ![p] = CallRec(q, now, FALSE, FALSE, 0)]
  /\ calls' = calls + 1
  /\ setCalls' = [setCalls EXCEPT ![q] = @ + 1]
  /\ everSet' = [everSet EXCEPT ![q] = @ \cup {a}]
  /\ deadSet' = [deadSet EXCEPT ![q] = @ /\ ExpireTime(a) < now]
  /\ lastSet' = [lastSet EXCEPT ![q] = a]
  /\ soleSet' = [soleSet EXCEPT ![q] = ~SetInFlight(q)]
  /\ UNCHANGED <<now, storeVars, setRets, earlyGet, gRet, gFound, evicted, liveSets>>
  /\ UNCHANGED connVars

\* c.mu.Lock(); c.m[q] = a; c.mu.Unlock()
SetLock(p) ==
  /\ pc[p] = "set_lock"
  /\ m' = MapStore(m, argQ[p], argA[p])
  /\ pc' = [pc EXCEPT ![p] = "idle"]
  /\ argA' = [argA EXCEPT ![p] = ZeroAnswer]
  /\ ret' = [ret EXCEPT ![p] = NoRet]
  /\ setRets' = [setRets EXCEPT ![argQ[p]] = @ + 1]
  /\ LET live == ExpireTime(argA[p]) > ret[p].t0 IN
       /\ evicted' = [evicted EXCEPT ![argQ[p]] = @ /\ ~live]
       /\ liveSets' = [liveSets EXCEPT ![argQ[p]] = IF live THEN @ + 1 ELSE @]
  /\ UNCHANGED <<now, hits, misses, argQ, calls, setCalls, everSet,
                 deadSet, lastSet, soleSet, earlyGet, gRet, gFound>>
  /\ UNCHANGED connVars

\* ------------------------------------------------------- real transport
\* A connection returned by the dial factory: what was written to it, the
\* response bytes it has yet to deliver, how often it was closed.
NewReal == [wrote |-> <<>>, pending |-> <<>>, closes |-> 0]

\* realConn.Write(b) on connection i: the server receives b and queues resp.
RealWrite(rs, i, b, resp) == [rs EXCEPT ![i].wrote = Append(@, b), ![i].pending = resp]

\* realConn.Close() on connection i.
RealClose(rs, i) == [rs EXCEPT ![i].closes = @ + 1]

\* -------------------------------------------------------- cacheConn.Write
\* The fields Write reads and assigns, threaded through its statements; ndial
\* counts the calls of c.dial, (n, err) is what Write returns.
WriteStart(c) ==
  [realConn |-> realConn[c], reals |-> reals[c], cachedResp |-> cachedResp[c],
   m |-> m, hits |-> hits, misses |-> misses, ndial |-> 0, n |-> 0, err |-> {}]

\* c.realConn, err = c.dial()
DialIn(S, ok) ==
  IF ok THEN [S EXCEPT !.reals = Append(S.reals, NewReal),
                       !.realConn = Len(S.reals) + 1,
                       !.ndial = @ + 1]
        ELSE [S EXCEPT !.realConn = 0, !.ndial = @ + 1, !.err = {"dial"}]

\* return c.realConn.Write(b)
ForwardIn(S, b, wok, resp) ==
  IF wok THEN [S EXCEPT !.reals = RealWrite(S.reals, S.realConn, b, resp), !.n = Len(b)]
         ELSE [S EXCEPT !.err = {"write"}]

\* The body of Write(b) at clock reading t; d1 and d2 say whether the first
\* and the second call of c.dial succeed, wok whether the real Write does, and
\* resp is what the server queues in reply.
WriteCode(c, b, d1, d2, wok, resp, t) ==
  LET S0 == WriteStart(c)
      u  == Unpack(b)
  IN
  IF ~u.ok THEN [S0 EXCEPT !.err = {"unpack"}]
  ELSE IF Len(u.msg.Questions) # 1
    THEN LET S1 == DialIn(S0, d1)
         IN IF ~d1 THEN S1 ELSE ForwardIn(S1, b, wok, resp)
  ELSE
    LET q  == u.msg.Questions[1]
        unsupported == q.Type # TypeA /\ q.Type # TypeAAAA
        S1 == IF unsupported THEN DialIn(S0, d1) ELSE S0
    IN
    IF unsupported /\ ~d1 THEN S1
    ELSE
      LET g  == GetAtomic(S1.m, S1.hits, S1.misses, newQuestion(q), t)
          S2 == [S1 EXCEPT !.m = g.m, !.hits = g.hits, !.misses = g.misses]
      IN
      IF ~g.found
        THEN LET S3 == DialIn(S2, d2)
             IN IF ~d2 THEN S3 ELSE ForwardIn(S3, b, wok, resp)
      ELSE
        LET ba == buildAnswers(q, g.a) IN
        IF ~ba.ok THEN [S2 EXCEPT !.err = {"build"}]
        ELSE [S2 EXCEPT
                !.cachedResp = NewReader(Pack([u.msg EXCEPT !.Answers = ba.rs,
                                                            !.Response = TRUE])),
                !.n = Len(b)]

\* How the real transport fares during one Write: both dials and the real
\* Write succeed and the server queues one of its responses, or (with faults)
\* one of the three fails.
Fate(d1, d2, wok, resp) == [d1 |-> d1, d2 |-> d2, wok |-> wok, resp |-> resp]
Fates(b, e) ==
  {Fate(TRUE, TRUE, TRUE, resp) : resp \in Responses(b, e)}
  \cup (IF e.faults
          THEN {Fate(FALSE, TRUE, TRUE, Garbage), Fate(TRUE, FALSE, TRUE, Garbage),
                Fate(TRUE, TRUE, FALSE, Garbage)}
          ELSE {})

Write(c, b, f) ==
  /\ ops < MaxConnOps
  /\ LET S == WriteCode(c, b, f.d1, f.d2, f.wok, f.resp, now) IN
       /\ Len(S.reals) <= MaxDials
       /\ realConn' = [realConn EXCEPT ![c] = S.realConn]
       /\ reals' = [reals EXCEPT ![c] = S.reals]
       /\ cachedResp' = [cachedResp EXCEPT ![c] = S.cachedResp]
       /\ m' = S.m
       /\ hits' = S.hits
       /\ misses' = S.misses
       /\ dials' = [dials EXCEPT ![c] = @ + S.ndial]
       /\ out' = [out EXCEPT ![c] = Out(S.n, S.err)]
  /\ ops' = ops + 1
  /\ last' = [c |-> c, op |-> "Write", b |-> b]
  /\ LET S == WriteCode(c, b, f.d1, f.d2, f.wok, f.resp, now) IN
       life' = [life EXCEPT ![c].writes = Min(@ + 1, 2),
                            ![c].failed = @ \/ S.err \cap {"dial", "write"} # {}]
  /\ UNCHANGED <<now, realResp, env, procVars, histVars>>

\* --------------------------------------------------------- cacheConn.Read
\* The body of Read(b) with len(b) = cap.  how is what the real connection's
\* Read does when it has bytes to deliver: "ok" delivers them, "err" delivers
\* them together with an error, "err0" fails without delivering anything.
\* The fields Read reads and assigns, with what it returns (n, err).
ReadStart(c) ==
  [cachedResp |-> cachedResp[c], realResp |-> realResp[c], reals |-> reals[c],
   n |-> 0, err |-> {}]

\* return c.cachedResp.Read(b)
ReadCached(c, cap) ==
  LET r == cachedResp[c]
      n == Min(cap, Len(r.data) - r.pos)
  IN IF n = 0 THEN [ReadStart(c) EXCEPT !.err = {"EOF"}]
     ELSE [ReadStart(c) EXCEPT !.cachedResp.pos = @ + n, !.n = n]

\* n, err := c.realConn.Read(b) and what follows it.
ReadReal(c, cap, how) ==
  LET i  == realConn[c]
      rc == reals[c][i]
      n  == Min(cap, Len(rc.pending))
  IN
  IF rc.closes > 0 \/ n = 0 \/ how = "err0" THEN [ReadStart(c) EXCEPT !.err = {"read"}]
  ELSE
    LET chunk == SubSeq(rc.pending, 1, n)
        S1 == [ReadStart(c) EXCEPT
                 !.reals[i].pending = SubSeq(rc.pending, n + 1, Len(rc.pending)),
                 !.n = n]
    IN IF how = "err" THEN [S1 EXCEPT !.err = {"read"}]
       ELSE [S1 EXCEPT !.realResp = @ \o chunk]

\* Variant of Read that reports no error when there is neither a cached
\* response nor a real connection.
ReadCodeSilent(c, cap, how) ==
  IF cachedResp[c].set THEN ReadCached(c, cap)
  ELSE IF realConn[c] = 0 THEN ReadStart(c)
  ELSE ReadReal(c, cap, how)

ReadCode(c, cap, how) ==
  IF cachedResp[c].set THEN ReadCached(c, cap)
  ELSE IF realConn[c] = 0 THEN [ReadStart(c) EXCEPT !.err = {"no real conn"}]
  ELSE ReadReal(c, cap, how)

\* What the real connection's Read may do.
Hows(e) == IF e.faults THEN {"ok", "err", "err0"} ELSE {"ok"}

Read(c, cap, how) ==
  /\ ops < MaxConnOps
  /\ LET S == ReadCode(c, cap, how) IN
       /\ cachedResp' = [cachedResp EXCEPT ![c] = S.cachedResp]
       /\ realResp' = [realResp EXCEPT ![c] = S.realResp]
       /\ reals' = [reals EXCEPT ![c] = S.reals]
       /\ out' = [out EXCEPT ![c] = Out(S.n, S.err)]
  /\ ops' = ops + 1
  /\ last' = [c |-> c, op |-> "Read", b |-> <<>>]
  /\ life' = [life EXCEPT ![c].failed = @ \/ "read" \in ReadCode(c, cap, how).err]
  /\ UNCHANGED <<now, storeVars, realConn, dials, env, procVars, histVars>>

\* -------------------------------------------------------- cacheConn.Close
\* The statements of Close between the deferred capture and the return: the
\* error they return and the map they leave.  newAnswer reads the clock at t1,
\* IsExpired reads it at t2; timed says whether the clock was read at all.
CloseBody(c, t1, t2) ==
  LET S0 == [m |-> m, err |-> {}, timed |-> FALSE] IN
  IF Len(realResp[c]) = 0 THEN S0
  ELSE
    LET u == Unpack(realResp[c]) IN
    IF ~u.ok THEN [S0 EXCEPT !.err = {"unpack"}]
    ELSE IF Len(u.msg.Questions) # 1 THEN S0
    ELSE
      LET question == newQuestion(u.msg.Questions[1])
          na == newAnswer(u.msg, t1)
      IN
      IF ~na.ok THEN [S0 EXCEPT !.err = {"answer"}]
      ELSE IF ~IsExpired(na.a, t2)
        THEN [S0 EXCEPT !.m = MapStore(m, question, na.a), !.timed = TRUE]
      ELSE [S0 EXCEPT !.timed = TRUE]

\* Variant of capture in which the close error replaces the error so far.
CaptureReplace(err, cok) == IF cok THEN err ELSE {"close"}

\* capture(&mErr, c.realConn.Close, "close real conn"): errors.Join
Capture(err, cok) == IF cok THEN err ELSE err \cup {"close"}

\* Whether the real connection's Close may succeed.
Closings(e) == IF e.faults THEN BOOLEAN ELSE {TRUE}

Close(c, cok, lag) ==
  /\ ops < MaxConnOps
  /\ now + lag <= MaxTime
  /\ IF realConn[c] = 0
       THEN /\ lag = 0
            /\ cok
            /\ out' = [out EXCEPT ![c] = Out(0, {})]
            /\ UNCHANGED <<now, m, reals>>
       ELSE LET S == CloseBody(c, now, now + lag) IN
              /\ S.timed \/ lag = 0
              /\ m' = S.m
              /\ now' = now + lag
              /\ reals' = [reals EXCEPT ![c] = RealClose(@, realConn[c])]
              /\ out' = [out EXCEPT ![c] = Out(0, Capture(S.err, cok))]
  /\ ops' = ops + 1
  /\ last' = [c |-> c, op |-> "Close", b |-> <<>>]
  /\ life' = [life EXCEPT ![c].closed = TRUE,
                          ![c].closeErr = @ \/ (realConn[c] # 0 /\ ~cok)]
  /\ UNCHANGED <<hits, misses, realConn, cachedResp, realResp, dials, env,
                 procVars, histVars>>

\* ------------------------------------------------------------------- Next
Next ==
  \/ Tick
  \/ \E p \in Procs, q \in Questions : GetCall(p, q)
  \/ \E p \in Procs : GetRLock(p)
  \/ \E p \in Procs : GetAbsent(p)
  \/ \E p \in Procs : GetCheck(p)
  \/ \E p \in Procs : GetLock(p)
  \/ \E p \in Procs : GetEvicted(p)
  \/ \E p \in Procs, q \in Questions : \E a \in SetAnswers(now) : SetCall(p, q, a)
  \/ \E p \in Procs : SetLock(p)

Spec == Init /\ [][Next]_vars

\* The cacheConn instances at work on the shared questionCache; each of Write,
\* Read and Close runs to completion before the next begins.
ConnNext ==
  \/ Tick
  \/ \E c \in Conns : \E b \in env.queries : \E f \in Fates(b, env) : Write(c, b, f)
  \/ \E c \in Conns, cap \in {SmallBuf, BigBuf} : \E how \in Hows(env) : Read(c, cap, how)
  \/ \E c \in Conns, lag \in 0..Lag : \E cok \in Closings(env) : Close(c, cok, lag)

InitConn == InitState /\ env = PlainEnv
SpecConn == InitConn /\ [][ConnNext]_vars

\* The same cacheConns with resolvers writing unsupported queries.
InitBypass == InitState /\ env = BypassEnv
SpecBypass == InitBypass /\ [][ConnNext]_vars

\* The same cacheConns on a transport that may fail.
InitFaults == InitState /\ env = FaultEnv
SpecFaults == InitFaults /\ [][ConnNext]_vars

\* The same cacheConns with resolvers asking for A and for AAAA records.
InitTypes == InitState /\ env = TypesEnv
SpecTypes == InitTypes /\ [][ConnNext]_vars


\* The same cacheConns with resolvers asking for A records and for records of
\* an unsupported type.
InitOtherType == InitState /\ env = OtherTypeEnv
SpecOtherType == InitOtherType /\ [][ConnNext]_vars

\* ------------------------------------------- buildAnswers and newAnswer
\* What Write does with a cached Answer on a hit for question q (buildAnswers,
\* Response = true, Pack), followed by what Close does with the bytes of a
\* response (Unpack, newAnswer) at clock reading t.
RoundTrip(q, answer, t) ==
  LET ba == buildAnswers(q, answer) IN
    IF ~ba.ok THEN [ok |-> FALSE]
    ELSE LET u == Unpack(Pack(Message(1, TRUE, <<q>>, ba.rs))) IN
           IF ~u.ok THEN [ok |-> FALSE] ELSE newAnswer(u.msg, t)

\* Sequences over S of length at most n.
SeqsUpTo(S, n) == UNION {[1..k -> S] : k \in 0..n}

\* The questions and the cached Answers the two functions are applied to: both
\* supported types; address lists of up to MaxIPs addresses of either family,
\* with and without zone; every TTL below TTLRange seconds, whole or not.
RoundQuestions == {DNSQuestion(HostName, TypeA), DNSQuestion(HostName, TypeAAAA)}
RoundAnswers ==
  {Answer(0, d, ips) : d \in 0..(TTLRange * Second - 1),
                       ips \in SeqsUpTo({IP4a, IP4b, IP6a, IP6z}, MaxIPs)}

RoundRet(q, a, r) == [kind |-> "roundtrip", q |-> q, a |-> a, r |-> r]

\* Goroutine p applies the two functions to its arguments.
ApplyRoundTrip(p) ==
  /\ pc[p] = "idle"
  /\ ret[p] = NoRet
  /\ ret' = [ret EXCEPT ![p] = RoundRet(argQ[p], argA[p], RoundTrip(argQ[p], argA[p], now))]
  /\ UNCHANGED <<now, storeVars, pc, argQ, argA, histVars, connVars>>

RoundNext == Tick \/ \E p \in Procs : ApplyRoundTrip(p)

InitRound ==
  /\ InitOthers
  /\ env = NoEnv
  /\ \E q \in RoundQuestions, a \in RoundAnswers :
       /\ argQ = [p \in Procs |-> q]
       /\ argA = [p \in Procs |-> a]
SpecRound == InitRound /\ [][RoundNext]_vars

\* ================================================================ properties
\* Sum of a per-question history counter over a set of questions.
RECURSIVE SumOver(_, _)
SumOver(f, S) ==
  IF S = {} THEN 0
  ELSE LET q == CHOOSE x \in S : TRUE IN f[q] + SumOver(f, S \ {q})

GetsReturned == SumOver(gRet, Questions)
GetsFound == SumOver(gFound, Questions)
GetInProgress == \E p \in Procs : pc[p] \in {"get_rlock", "get_absent", "get_check",
                                             "get_lock", "get_evicted"}
\* The questions Set was called with / never called with.
SetQuestions == {q \in Questions : setCalls[q] > 0}
UnsetQuestions == Questions \ SetQuestions
\* The result of the Get that goroutine p completed last, if it is on record.
Returned(p) == ret[p].kind = "get"

\* ---------------------------------------------------------------------- C1
\* The operation that the step just taken ran on cacheConn c.
StepOf(c, op) == ops' = ops + 1 /\ last'.c = c /\ last'.op = op

\* b is a response to a single type-A question carrying at least one record,
\* all of them A records, the first with TTL > 0.
ValidAResponse(b) ==
  LET u == Unpack(b) IN
    /\ u.ok
    /\ u.msg.Response
    /\ Len(u.msg.Questions) = 1
    /\ u.msg.Questions[1].Type = TypeA
    /\ Len(u.msg.Answers) >= 1
    /\ \A i \in 1..Len(u.msg.Answers) :
         u.msg.Answers[i].Header.Type = TypeA /\ u.msg.Answers[i].Body.kind = TypeA
    /\ u.msg.Answers[1].Header.TTL > 0

\* The addresses carried by the records of message msg, in order.
RecordIPs(msg) == [i \in 1..Len(msg.Answers) |-> msg.Answers[i].Body.A]

\* Close on a cacheConn that dialed and whose Reads delivered a valid type-A
\* response leaves in the store, under the question of the response, an entry
\* with the addresses of the response and the TTL of its first record.
C1_CloseStores ==
  \A c \in Conns :
    (StepOf(c, "Close") /\ realConn[c] # 0 /\ ValidAResponse(realResp[c])) =>
      LET msg == Unpack(realResp[c]).msg
          q == Question(msg.Questions[1].Name, TypeA)
      IN /\ q \in DOMAIN m'
         /\ m'[q].FetchTime = now
         /\ m'[q].TTL = msg.Answers[1].Header.TTL * Second
         /\ Len(m'[q].IPs) = Len(msg.Answers)
         /\ \A i \in 1..Len(msg.Answers) : As4(m'[q].IPs[i]) = RecordIPs(msg)[i]
         /\ out'[c].err = {}

\* Write of a single type-A query on a cacheConn that has done nothing yet,
\* while the store holds for that question an entry with IPv4 addresses and
\* fetchTime + TTL after the current time, does not call the dial factory and
\* prepares the response from the entry.
C1_WriteServes ==
  \A c \in Conns :
    LET u == Unpack(last'.b) IN
    (/\ StepOf(c, "Write")
     /\ dials[c] = 0 /\ realConn[c] = 0 /\ ~cachedResp[c].set
     /\ u.ok
     /\ Len(u.msg.Questions) = 1
     /\ u.msg.Questions[1].Type = TypeA
     /\ Question(u.msg.Questions[1].Name, TypeA) \in DOMAIN m
     /\ now < ExpireTime(m[Question(u.msg.Questions[1].Name, TypeA)])
     /\ \A i \in 1..Len(m[Question(u.msg.Questions[1].Name, TypeA)].IPs) :
          Is4(m[Question(u.msg.Questions[1].Name, TypeA)].IPs[i]))
    => LET a == m[Question(u.msg.Questions[1].Name, TypeA)]
           r == Unpack(cachedResp'[c].data)
       IN /\ dials'[c] = 0
          /\ realConn'[c] = 0
          /\ reals'[c] = <<>>
          /\ out'[c] = Out(Len(last'.b), {})
          /\ cachedResp'[c].set
          /\ r.ok
          /\ r.msg.ID = u.msg.ID
          /\ r.msg.Response
          /\ r.msg.Questions = u.msg.Questions
          /\ Len(r.msg.Answers) = Len(a.IPs)
          /\ \A i \in 1..Len(a.IPs) :
               /\ r.msg.Answers[i].Header.Type = TypeA
               /\ r.msg.Answers[i].Header.TTL = a.TTL \div Second
               /\ r.msg.Answers[i].Body.A = As4(a.IPs[i])
          /\ m' = m

\* C1: after a cacheConn has forwarded a query on a miss, Read a valid
\* single-question type-A response with at least one A record and TTL > 0, and
\* Closed, the store holds an entry for the question with the addresses and
\* the TTL of the response; a new cacheConn given the same query before
\* fetchTime + TTL answers it from the store without calling the dial factory.
C1_ReadThrough == [][C1_CloseStores /\ C1_WriteServes]_vars

\* One cacheConn dialed once, Read a valid response and was Closed; another,
\* given the same query, has answered with the same addresses without dialing.
C1_Witness ==
  \E c1, c2 \in Conns :
    /\ c1 # c2
    /\ dials[c1] = 1
    /\ reals[c1][1].closes = 1
    /\ ValidAResponse(realResp[c1])
    /\ Len(Unpack(realResp[c1]).msg.Answers) = 2
    /\ dials[c2] = 0
    /\ cachedResp[c2].set
    /\ out[c2] = Out(Len(QueryA), {})
    /\ last = [c |-> c2, op |-> "Write", b |-> reals[c1][1].wrote[1]]
    /\ Unpack(cachedResp[c2].data).ok
    /\ RecordIPs(Unpack(cachedResp[c2].data).msg) = RecordIPs(Unpack(realResp[c1]).msg)
    /\ Unpack(cachedResp[c2].data).msg.Answers[1].Header.TTL
         = Unpack(realResp[c1]).msg.Answers[1].Header.TTL

C3_ExpiredSetIsNoOp ==
  \A q \in Questions :
    (setCalls[q] > 0 /\ deadSet[q]) => q \notin DOMAIN m

\* ---------------------------------------------------------------------- C4
\* C4: a Get that read an entry from the mapping returned found if it returned
\* at a time t < fetchTime + TTL of that entry, and returned not-found if it
\* was called at a time t >= fetchTime + TTL, t = fetchTime + TTL included.
C4_ExpiryExact ==
  \A p \in Procs :
    (Returned(p) /\ ret[p].seen) =>
      /\ (ret[p].t < ExpireTime(ret[p].obs)) => ret[p].found
      /\ (ret[p].t0 >= ExpireTime(ret[p].obs)) => ~ret[p].found

\* ---------------------------------------------------------------------- C5
\* C5: once a Get(q) has removed the entry of q, every Get(q) called later
\* returns not-found, unless a Set(q, .) of an answer that was not expired
\* (fetchTime + TTL after the time of the call) has stored in the meantime.
C5_EvictionPersists ==
  \A p \in Procs :
    (Returned(p) /\ ret[p].quiet) => ~ret[p].found

\* ---------------------------------------------------------------------- C6
\* C6: once Set(q, a) has returned, a is not expired, and no other Set(q, .)
\* was in progress when it was called or has begun since, the mapping holds a
\* for q, whatever Gets of q are in progress.
C6_NoLostWrite ==
  \A q \in Questions :
    (/\ setRets[q] > 0
     /\ soleSet[q]
     /\ ~SetInFlight(q)
     /\ now < ExpireTime(lastSet[q]))
    => (q \in DOMAIN m /\ m[q] = lastSet[q])

\* ---------------------------------------------------------------------- C7
\* C7: hits counts exactly the Gets that returned found and misses exactly
\* those that returned not-found, so that with no Get in progress hits + misses
\* is the number of Gets that have returned; each returning Get increments
\* exactly one of the counters by one, and no step decreases a counter.
C7_CountersState ==
  /\ hits = GetsFound
  /\ misses = GetsReturned - GetsFound
  /\ ~GetInProgress => hits + misses = GetsReturned

C7_CountersStep ==
  /\ hits' >= hits
  /\ misses' >= misses
  /\ \A p \in Procs :
       (~Returned(p) /\ Returned(p)') =>
         IF ret'[p].found
           THEN hits' = hits + 1 /\ misses' = misses
           ELSE misses' = misses + 1 /\ hits' = hits
  /\ (hits' # hits \/ misses' # misses) =>
       \E p \in Procs : ~Returned(p) /\ Returned(p)'

C7_Counters == []C7_CountersState /\ [][C7_CountersStep]_vars

\* Gets have returned by each of the three paths (absent, evicted, found),
\* and none is in progress.
C7_Witness ==
  /\ ~GetInProgress
  /\ hits >= 1
  /\ misses >= 2
  /\ \E p \in Procs : Returned(p) /\ ret[p].seen /\ ~ret[p].found

\* ---------------------------------------------------------------------- C8
\* C8: when q was populated by one Set that returned before any Get(q) was
\* called, and its entry is still not expired, every Get(q) that has returned,
\* from whichever goroutine, returned found; with no other question read, the
\* hit counter equals the number of Gets returned and the miss counter is 0.
C8_Populated(q) ==
  /\ setCalls[q] = 1
  /\ setRets[q] = 1
  /\ ~earlyGet[q]
  /\ now < ExpireTime(lastSet[q])

C8_StressGetPresent ==
  \A q \in Questions :
    C8_Populated(q) =>
      /\ gFound[q] = gRet[q]
      /\ \A p \in Procs : (Returned(p) /\ ret[p].q = q) => ret[p].found /\ ret[p].a = lastSet[q]
      /\ (\A o \in Questions \ {q} : gRet[o] = 0) => (hits = gRet[q] /\ misses = 0)

\* Both goroutines have had a Get(q) return and three Gets in all have
\* returned on the populated store.
C8_Witness ==
  \E q \in Questions :
    /\ C8_Populated(q)
    /\ gRet[q] = MaxCalls - 1
    /\ hits = MaxCalls - 1
    /\ \A p \in Procs : Returned(p) /\ ret[p].q = q

\* ---------------------------------------------------------------------- C9
\* C9: every Get of a question that was never passed to Set returned
\* not-found; the K such Gets that have returned account for K increments of
\* the miss counter and none of the hit counter.
C9_StressGetMissing ==
  /\ \A q \in UnsetQuestions :
       /\ gFound[q] = 0
       /\ q \notin DOMAIN m
       /\ \A p \in Procs : (Returned(p) /\ ret[p].q = q) => ~ret[p].found
  /\ hits = SumOver(gFound, SetQuestions)
  /\ misses = SumOver(gRet, UnsetQuestions)
              + SumOver(gRet, SetQuestions) - SumOver(gFound, SetQuestions)

\* Gets of a never-Set question have returned on both goroutines, while the
\* other question is stored and was found.
C9_Witness ==
  \E q \in UnsetQuestions :
    /\ gRet[q] >= 2
    /\ misses = gRet[q]
    /\ hits >= 1
    /\ \A p \in Procs : Returned(p) /\ ret[p].q = q

\* --------------------------------------------------------------------- C10
\* C10: with no entry stored for q, after Set(q, a) with fetchTime + TTL of a
\* in the past at the time of the Set, a Get(q) reports not-found.
C10_DeadSetThenGet ==
  \A p \in Procs :
    (/\ Returned(p)
     /\ ret[p].after
     /\ deadSet[ret[p].q])
    => ~ret[p].found

\* A Get(q) issued after such a Set returned read the dead entry and reported
\* not-found.
C10_Witness ==
  \E p \in Procs :
    /\ Returned(p)
    /\ ret[p].after
    /\ deadSet[ret[p].q]
    /\ ret[p].seen
    /\ ~ret[p].found

\* --------------------------------------------------------------------- C11
\* The query of the Write just performed, unpacked, and the key of its first
\* question in the store.
WrittenQuery == Unpack(last'.b)
WrittenKey == Question(WrittenQuery.msg.Questions[1].Name, WrittenQuery.msg.Questions[1].Type)

\* The Write just performed on c was the first operation on c and carried a
\* well-formed query with exactly one question, of a type in types.
FirstWriteOf(c, types) ==
  /\ StepOf(c, "Write")
  /\ life[c].writes = 0 /\ ~life[c].closed
  /\ WrittenQuery.ok
  /\ Len(WrittenQuery.msg.Questions) = 1
  /\ WrittenQuery.msg.Questions[1].Type \in types

\* The Write just performed on c called the dial factory once and passed its
\* bytes, and nothing else, to the connection it got.
ForwardedOnce(c) ==
  /\ dials'[c] = dials[c] + 1
  /\ Len(reals'[c]) = Len(reals[c]) + 1
  /\ realConn'[c] = Len(reals'[c])
  /\ reals'[c][realConn'[c]].wrote = <<last'.b>>

\* C11: Write of a well-formed query with exactly one question of type A or
\* AAAA, while the store holds no entry for the question with fetchTime + TTL
\* after the current time, calls the dial factory exactly once, passes the
\* identical bytes to the real connection's Write, returns its result and
\* buffers no synthesized response.
C11_MissForwards ==
  [][\A c \in Conns :
       (/\ FirstWriteOf(c, {TypeA, TypeAAAA})
        /\ ~(WrittenKey \in DOMAIN m /\ now < ExpireTime(m[WrittenKey])))
       => /\ ForwardedOnce(c)
          /\ out'[c] = Out(Len(last'.b), {})
          /\ ~cachedResp'[c].set]_vars

\* --------------------------------------------------------------------- C12
\* Every address of answer a is of the family that record type t asks for.
FamilyMatches(a, t) ==
  \A i \in 1..Len(a.IPs) : IF t = TypeA THEN Is4(a.IPs[i]) ELSE Is6(a.IPs[i])

\* Write of a single-question A/AAAA query whose question has an entry with
\* fetchTime + TTL after the current time and addresses of the matching family
\* calls no dial factory and returns (len(b), nil).
C12_HitWrite ==
  \A c \in Conns :
    (/\ FirstWriteOf(c, {TypeA, TypeAAAA})
     /\ WrittenKey \in DOMAIN m
     /\ now < ExpireTime(m[WrittenKey])
     /\ FamilyMatches(m[WrittenKey], WrittenKey.Type))
    => /\ dials' = dials
       /\ reals' = reals
       /\ realConn'[c] = 0
       /\ cachedResp'[c].set
       /\ out'[c] = Out(Len(last'.b), {})

\* Close after such a Write returns nil, closes no connection and leaves the
\* mapping alone.
C12_HitClose ==
  \A c \in Conns :
    (/\ StepOf(c, "Close")
     /\ life[c].writes = 1 /\ ~life[c].closed
     /\ cachedResp[c].set)
    => /\ out'[c] = Out(0, {})
       /\ reals' = reals
       /\ m' = m
       /\ dials' = dials

\* C12: Write of a single-question A/AAAA query whose question has a
\* non-expired entry with addresses of the matching family never calls the
\* dial factory and returns (len(input), nil); a following Close returns nil
\* without closing any connection and without changing the store's mapping.
C12_HitIsLocal == [][C12_HitWrite /\ C12_HitClose]_vars

\* A cacheConn answered an AAAA query from the store and was closed, without
\* ever dialing.
C12_Witness ==
  \E c \in Conns :
    /\ last.c = c /\ last.op = "Close"
    /\ life[c] = [writes |-> 1, closed |-> TRUE, failed |-> FALSE, closeErr |-> FALSE]
    /\ cachedResp[c].set
    /\ Unpack(cachedResp[c].data).msg.Questions[1].Type = TypeAAAA
    /\ dials[c] = 0
    /\ reals[c] = <<>>
    /\ out[c] = Out(0, {})
    /\ Question(HostName, TypeAAAA) \in DOMAIN m

\* --------------------------------------------------------------------- C13
\* C13: the single Write a cacheConn receives calls the dial factory at most
\* once, and only if the query is a cache miss or has an unsupported shape (a
\* question count other than one, a record type other than A and AAAA).
C13_DialAtMostOnce ==
  [][\A c \in Conns :
       (StepOf(c, "Write") /\ life[c].writes = 0 /\ ~life[c].closed) =>
         /\ dials'[c] <= dials[c] + 1
         /\ dials'[c] > dials[c] =>
              \/ ~WrittenQuery.ok
              \/ Len(WrittenQuery.msg.Questions) # 1
              \/ WrittenQuery.msg.Questions[1].Type \notin {TypeA, TypeAAAA}
              \/ ~(WrittenKey \in DOMAIN m /\ now < ExpireTime(m[WrittenKey]))]_vars

\* --------------------------------------------------------------------- C14
\* The query that was forwarded on the real connection cacheConn c holds.
ForwardedQuery(c) == Unpack(reals[c][realConn[c]].wrote[1])

\* Write of a query whose number of questions is not one forwards it without
\* consulting the store.
C14_BypassWrite ==
  \A c \in Conns :
    (/\ StepOf(c, "Write")
     /\ life[c].writes = 0 /\ ~life[c].closed
     /\ WrittenQuery.ok
     /\ Len(WrittenQuery.msg.Questions) # 1)
    => /\ ForwardedOnce(c)
       /\ out'[c] = Out(Len(last'.b), {})
       /\ ~cachedResp'[c].set
       /\ <<m, hits, misses>>' = <<m, hits, misses>>

\* Close after such a Write stores nothing, whatever the Reads delivered.
C14_BypassClose ==
  \A c \in Conns :
    (/\ StepOf(c, "Close")
     /\ life[c].writes = 1 /\ ~life[c].closed
     /\ realConn[c] # 0
     /\ reals[c][realConn[c]].wrote # <<>>
     /\ ForwardedQuery(c).ok
     /\ Len(ForwardedQuery(c).msg.Questions) # 1)
    => m' = m

\* C14: a query whose number of questions is not exactly one is always
\* forwarded to the real connection without consulting the store, whatever
\* the store contains, and whatever response the real connection returns for
\* it is never stored by Close.
C14_MultiQuestionBypass == [][C14_BypassWrite /\ C14_BypassClose]_vars

\* --------------------------------------------------------------------- C15
\* C15: Write of a single-question query whose record type is neither A nor
\* AAAA is not an error and is not answered from the store, whatever the store
\* contains: it dials, forwards the bytes verbatim on the connection it holds
\* and returns the real Write's result.
C15_UnsupportedTypeForwards ==
  [][\A c \in Conns :
       (FirstWriteOf(c, {TypeMX})) =>
         /\ dials'[c] > dials[c]
         /\ realConn'[c] # 0
         /\ reals'[c][realConn'[c]].wrote = <<last'.b>>
         /\ out'[c] = Out(Len(last'.b), {})
         /\ ~cachedResp'[c].set]_vars

\* --------------------------------------------------------------------- C16
\* C16: when Close returns on a cacheConn that received at most one Write and
\* was not closed before, every connection its dial factory returned has been
\* closed, on whichever path Close took.
C16_AllDialedClosed ==
  [][\A c \in Conns :
       (StepOf(c, "Close") /\ life[c].writes <= 1 /\ ~life[c].closed) =>
         \A i \in 1..Len(reals'[c]) : reals'[c][i].closes >= 1]_vars

\* --------------------------------------------------------------------- C17
\* Every record of msg is an A or AAAA record with a body of its type.
AddressRecords(msg) ==
  \A i \in 1..Len(msg.Answers) :
    /\ msg.Answers[i].Header.Type \in {TypeA, TypeAAAA}
    /\ msg.Answers[i].Body.kind = msg.Answers[i].Header.Type

\* The parse/population step of a Close on c fails: bytes were accumulated and
\* they are no message, or they are a single-question response from which no
\* Answer can be built.
ParseFails(c) ==
  /\ Len(realResp[c]) > 0
  /\ \/ ~Unpack(realResp[c]).ok
     \/ /\ Len(Unpack(realResp[c]).msg.Questions) = 1
        /\ \/ Len(Unpack(realResp[c]).msg.Answers) = 0
           \/ ~AddressRecords(Unpack(realResp[c]).msg)

\* C17: the error the first Close on a cacheConn with a real connection
\* returns holds the parse/population error exactly if that step failed and
\* the close error exactly if the real connection's Close failed: both if
\* both failed, the one if one failed, nil if neither did.
C17_JointCloseError ==
  [][\A c \in Conns :
       (StepOf(c, "Close") /\ ~life[c].closed /\ realConn[c] # 0) =>
         /\ out'[c].err \subseteq {"unpack", "answer", "close"}
         /\ ParseFails(c) <=> (out'[c].err \cap {"unpack", "answer"} # {})
         /\ life'[c].closeErr <=> ("close" \in out'[c].err)]_vars

\* A Close whose population step failed and whose real connection failed to
\* close returned both errors.
C17_Witness ==
  \E c \in Conns :
    /\ last.c = c /\ last.op = "Close"
    /\ life[c].closeErr
    /\ realConn[c] # 0
    /\ out[c].err = {"answer", "close"}

\* --------------------------------------------------------------------- C18
\* C18: on a cacheConn that received one Write and on which the dial, the real
\* Write or a real Read returned an error, Close populates nothing: it leaves
\* the store's mapping as it found it.
C18_FailureStoresNothing ==
  [][\A c \in Conns :
       (/\ StepOf(c, "Close")
        /\ life[c].writes = 1 /\ ~life[c].closed
        /\ life[c].failed)
       => m' = m]_vars

\* --------------------------------------------------------------------- C19
\* The first Write on c with a single A/AAAA question for which the store
\* returns an entry with an address of the other family fails with a byte
\* count of 0, buffers nothing, dials nothing and forwards nothing.
C19_MismatchWrite ==
  \A c \in Conns :
    (/\ FirstWriteOf(c, {TypeA, TypeAAAA})
     /\ WrittenKey \in DOMAIN m
     /\ now <= ExpireTime(m[WrittenKey])
     /\ ~FamilyMatches(m[WrittenKey], WrittenKey.Type))
    => /\ out'[c].n = 0
       /\ out'[c].err # {}
       /\ ~cachedResp'[c].set
       /\ dials' = dials
       /\ reals' = reals
       /\ realConn'[c] = 0

\* A Read on a cacheConn left without buffered response and without real
\* connection returns no data.
C19_NoDataRead ==
  \A c \in Conns :
    (StepOf(c, "Read") /\ ~cachedResp[c].set /\ realConn[c] = 0)
    => /\ out'[c].n = 0
       /\ out'[c].err # {}
       /\ ~cachedResp'[c].set

OutOfOrder(c) ==
  \/ StepOf(c, "Write") /\ (life[c].writes >= 1 \/ life[c].closed)
  \/ StepOf(c, "Read") /\ (life[c].writes = 0 \/ life[c].closed)
  \/ StepOf(c, "Close") /\ life[c].closed

\* C20: an operation outside the order Write, zero or more Reads, Close
\* returns an error and has no other effect: no dial, no data returned, no
\* close of a real connection, no store update.
C20_OrderEnforced ==
  [][\A c \in Conns :
       OutOfOrder(c) =>
         /\ out'[c].err # {}
         /\ out'[c].n = 0
         /\ dials' = dials
         /\ reals' = reals
         /\ m' = m]_vars

\* --------------------------------------------------------------------- C21
\* C21: a Read on a cacheConn that has neither a cached response nor a real
\* connection (no Write yet, or a Write that failed before setting either)
\* returns 0 bytes with an error and changes nothing of the cacheConn or the
\* questionCache.
C21_ReadBeforeSetup ==
  [][\A c \in Conns :
       (StepOf(c, "Read") /\ ~cachedResp[c].set /\ realConn[c] = 0)
         => /\ out'[c].n = 0
            /\ out'[c].err # {}
            /\ UNCHANGED <<m, hits, misses, realConn, cachedResp, realResp, reals, dials>>]_vars

\* A Read has returned the error on a cacheConn whose only Write failed to
\* dial.
C21_Witness ==
  \E c \in Conns :
    /\ last.c = c /\ last.op = "Read"
    /\ life[c].writes = 1 /\ life[c].failed
    /\ ~cachedResp[c].set /\ realConn[c] = 0
    /\ out[c] = Out(0, {"no real conn"})
    /\ m = EmptyMap

\* --------------------------------------------------------------------- C22
\* The goroutines that have applied buildAnswers and newAnswer in turn.
RoundTripped(p) == ret[p].kind = "roundtrip"

\* The result of the round trip is the address list of the Answer, in order,
\* with its TTL truncated to whole seconds.
RoundTripSame(p) ==
  /\ ret[p].r.ok
  /\ ret[p].r.a.IPs = ret[p].a.IPs
  /\ ret[p].r.a.TTL = (ret[p].a.TTL \div Second) * Second

\* C22 as stated: for every Answer whose addresses all match the record type
\* of the question, buildAnswers followed by newAnswer yields the same address
\* list in the same order and the TTL truncated to whole seconds.
C22_RoundTripAll ==
  \A p \in Procs :
    (RoundTripped(p) /\ FamilyMatches(ret[p].a, ret[p].q.Type)) => RoundTripSame(p)

\* C22, amended: the same for every Answer that holds at least one address
\* and whose addresses carry no IPv6 zone.
C22_RoundTrip ==
  \A p \in Procs :
    (/\ RoundTripped(p)
     /\ FamilyMatches(ret[p].a, ret[p].q.Type)
     /\ Len(ret[p].a.IPs) >= 1
     /\ \A i \in 1..Len(ret[p].a.IPs) : ret[p].a.IPs[i].zone = "")
      => RoundTripSame(p)

\* Two IPv6 addresses and a TTL of one and a half seconds have made the round
\* trip and come back as the same two addresses with a TTL of one second.
C22_Witness ==
  \E p \in Procs :
    /\ RoundTripped(p)
    /\ ret[p].q.Type = TypeAAAA
    /\ ret[p].a.IPs = <<IP6a, IP6a>>
    /\ ret[p].a.TTL = Second + 1
    /\ ret[p].r.ok
    /\ ret[p].r.a.IPs = <<IP6a, IP6a>>
    /\ ret[p].r.a.TTL = Second

\* --------------------------------------------------------------------- C23
\* b is a response with exactly one question and one or more answer records,
\* all of type A or AAAA, the first with TTL > 0.
StorableResponse(b) ==
  LET u == Unpack(b) IN
    /\ u.ok
    /\ Len(u.msg.Questions) = 1
    /\ Len(u.msg.Answers) >= 1
    /\ \A i \in 1..Len(u.msg.Answers) : u.msg.Answers[i].Header.Type \in {TypeA, TypeAAAA}
    /\ u.msg.Answers[1].Header.TTL > 0

\* The address carried by answer record r.
AddressOf(r) ==
  IF r.Header.Type = TypeA THEN Addr(4, r.Body.A, "") ELSE Addr(6, r.Body.AAAA, "")

\* C23: when the bytes accumulated from the real connection are a storable
\* response, Close leaves under its question an Answer whose TTL is the TTL of
\* the first record in seconds, whose addresses are those of all records in
\* order and whose fetch time is the time of the Close, whatever was stored
\* under that question before.
C23_CloseStoresFirstTTL ==
  [][\A c \in Conns :
       (StepOf(c, "Close") /\ realConn[c] # 0 /\ StorableResponse(realResp[c]))
         => LET msg == Unpack(realResp[c]).msg
                key == Question(msg.Questions[1].Name, msg.Questions[1].Type)
            IN /\ key \in DOMAIN m'
               /\ m'[key].TTL = msg.Answers[1].Header.TTL * Second
               /\ m'[key].IPs = [i \in 1..Len(msg.Answers) |-> AddressOf(msg.Answers[i])]
               /\ m'[key].FetchTime \in now..now']_vars

\* A second Close on a cacheConn that read a response of two A records with
\* TTLs 1 and 0 has replaced the entry of the first Close: TTL one second,
\* both addresses, fetched at the time of the second Close.
C23_Witness ==
  \E c \in Conns :
    /\ last.c = c /\ last.op = "Close"
    /\ realConn[c] # 0
    /\ reals[c][realConn[c]].closes = 2
    /\ StorableResponse(realResp[c])
    /\ Unpack(realResp[c]).msg.Answers = TwoA
    /\ now = 1
    /\ m[Q1] = Answer(1, Second, <<IP4a, IP4b>>)

\* --------------------------------------------------------------------- C24
\* C24: with the questionCache populated by cacheConn.Close alone, the
\* addresses of every stored entry belong to the family of the record type of
\* its key (A: IPv4 only, AAAA: IPv6 only).
C24_StoredFamilyMatchesKey ==
  \A q \in DOMAIN m : FamilyMatches(m[q], q.Type)

\* --------------------------------------------------------------------- C25
\* C25: every key that a cacheConn inserts into the questionCache has record
\* type A or AAAA; the response to a query of another type is never stored.
C25_StoredKeysSupported ==
  \A q \in DOMAIN m : q.Type \in {TypeA, TypeAAAA}

\* --------------------------------------------------------------------- C26
\* b is a response with exactly one question and one or more answer records,
\* all of type A or AAAA, the first with TTL zero.
ZeroTTLResponse(b) ==
  LET u == Unpack(b) IN
    /\ u.ok
    /\ Len(u.msg.Questions) = 1
    /\ Len(u.msg.Answers) >= 1
    /\ \A i \in 1..Len(u.msg.Answers) : u.msg.Answers[i].Header.Type \in {TypeA, TypeAAAA}
    /\ u.msg.Answers[1].Header.TTL = 0

\* C26: when the Answer that Close builds from the real response has a TTL of
\* zero seconds, Close leaves the mapping unchanged, at whatever clock reading
\* the expiry check is made (the instant of the fetch time included).
C26_ZeroTTLNotStored ==
  [][\A c \in Conns :
       (StepOf(c, "Close") /\ realConn[c] # 0 /\ ZeroTTLResponse(realResp[c]))
         => m' = m]_vars

\* --------------------------------------------------------------------- C27
\* C27: on a cacheConn without cached response and with a real connection,
\* every Read returns the count of bytes that the real connection delivered,
\* and appends exactly those bytes to realResp, also when the real Read
\* returned them together with an error.
C27_ReadAccumulates ==
  [][\A c \in Conns :
       (StepOf(c, "Read") /\ ~cachedResp[c].set /\ realConn[c] # 0)
         => LET before == reals[c][realConn[c]].pending
                after  == reals'[c][realConn[c]].pending
            IN /\ out'[c].n = Len(before) - Len(after)
               /\ realResp'[c] = realResp[c] \o SubSeq(before, 1, out'[c].n)]_vars

\* --------------------------------------------------------------------- C28
\* C28: a cacheConn on which Write was called at most once never holds both a
\* cached response and a real connection (the questionCache being populated
\* by cacheConn.Close alone).
C28_SingleSource ==
  \A c \in Conns :
    life[c].writes <= 1 => ~(cachedResp[c].set /\ realConn[c] # 0)

\* The only Write on a cacheConn carried a question of an unsupported type,
\* dialed, and then found an entry under that question: it holds a real
\* connection and no cached response.
C28_Witness ==
  \E c \in Conns :
    /\ last.c = c /\ last.op = "Write" /\ last.b = QueryMX
    /\ life[c].writes = 1
    /\ hits = 1
    /\ realConn[c] # 0
    /\ ~cachedResp[c].set

\* --------------------------------------------------------------------- C29
\* The step just taken is a statement of goroutine p, inside a call on key q.
StepBy(p) == pc'[p] # pc[p]
KeyOf(p) == IF pc[p] = "idle" THEN argQ'[p] ELSE argQ[p]

\* Get(q) and Set(q, a) leave the entry of every other question as it is.
C29_OtherKeysKept ==
  \A p \in Procs :
    StepBy(p) => \A k \in Questions \ {KeyOf(p)} : MapLookup(m', k) = MapLookup(m, k)

\* The statements of a Get that finds no entry or returns found=true leave the
\* whole mapping as it is.
C29_QuietGetKeepsMap ==
  \A p \in Procs :
    (StepBy(p) /\ pc[p] \in {"get_rlock", "get_absent", "get_check"}) => m' = m

\* A key leaves the mapping only in the delete of a Get on that key, and the
\* entry that goes is the expired entry which that Get read.
C29_RemovedOnlyWhenSeenExpired ==
  \A k \in DOMAIN m \ DOMAIN m' :
    \E p \in Procs :
      /\ pc[p] = "get_lock" /\ pc'[p] = "get_evicted"
      /\ argQ[p] = k
      /\ argA[p] = m[k]
      /\ IsExpired(m[k], now)

\* C29: Get(q) and Set(q, a) never change the entry of another question; a
\* Get that returns found=true or finds no entry leaves the mapping unchanged;
\* a stored entry disappears only through a Get on its own key that observed
\* it expired.
C29_Frame ==
  [][C29_OtherKeysKept /\ C29_QuietGetKeepsMap /\ C29_RemovedOnlyWhenSeenExpired]_vars

====
